---- MODULE Spec2Model ----
(***************************************************************************)
(* Model of polygons.py: the Polygon value class, the Polygons sequence    *)
(* and its PolygonsIterator.                                               *)
(*                                                                         *)
(* Floating point numbers are modelled as fixed point numbers: the integer *)
(* x stands for the real x / Scale, and every product and quotient rounds  *)
(* to the nearest representable value (ties to even), as IEEE-754 doubles  *)
(* do.  The model therefore has underflow to zero (tiny operands), exact   *)
(* ties and division by zero, but neither infinities nor NaN.              *)
(***************************************************************************)
EXTENDS Integers, Sequences, FiniteSets, TLC

(* ---- bounds of the model ---- *)
MaxM == 4
MaxCursors == 2

(* fixed point unit: the integer x stands for x / Scale *)
Scale == 1000

(* circumradii the callers pass, in fixed point: -1.0, 0.0, 0.001, 1.0 *)
RValues == {0 - Scale, 0, 1, Scale}

(* edge counts and maximum edge counts the callers pass *)
NValues == 2..MaxM

(* indices the callers pass to __getitem__ *)
IndexValues == (0 - (MaxM - 1))..(MaxM - 1)

VARIABLES seq, cursors, p, result

vars == <<seq, cursors, p, result>>

(* ---- float arithmetic ---- *)
RoundHalfEven(x, d) ==
    LET q == x \div d
        r == x % d
    IN  IF 2 * r < d THEN q
        ELSE IF 2 * r > d THEN q + 1
        ELSE IF q % 2 = 0 THEN q ELSE q + 1

(* x / d for d > 0, rounded to nearest, symmetric in the sign of x *)
RoundDiv(x, d) == IF x < 0 THEN 0 - RoundHalfEven(0 - x, d) ELSE RoundHalfEven(x, d)

FMul(a, b) == RoundDiv(a * b, Scale)

FloatDivError_IEEE(a, b) == FALSE

(* float division raises ZeroDivisionError for a zero divisor, 0.0 / 0.0 included *)
FloatDivError(a, b) == b = 0

(* a / b; for b = 0 the division raises (FloatDivError) and yields no value, *)
(* 0 stands in for the quotient that is never used                          *)
FDiv(a, b) ==
    IF b = 0 THEN 0
    ELSE IF b < 0 THEN RoundDiv((0 - a) * Scale, 0 - b)
    ELSE RoundDiv(a * Scale, b)

FromInt(n) == n * Scale

(* math.sin(math.pi / n) and math.cos(math.pi / n), in fixed point *)
SinPiOver(n) ==
    CASE n = 3 -> 866 [] n = 4 -> 707 [] n = 5 -> 588 [] n = 6 -> 500
      [] n = 7 -> 434 [] n = 8 -> 383 [] n = 9 -> 342 [] n = 10 -> 309
      [] n = 11 -> 282 [] n = 12 -> 259

CosPiOver(n) ==
    CASE n = 3 -> 500 [] n = 4 -> 707 [] n = 5 -> 809 [] n = 6 -> 866
      [] n = 7 -> 901 [] n = 8 -> 924 [] n = 9 -> 940 [] n = 10 -> 951
      [] n = 11 -> 959 [] n = 12 -> 966

(* ---- class Polygon ---- *)
NoPolygon == [type |-> "None", n |-> 0, R |-> 0]

(* a value that is not an instance of Polygon *)
OtherValues == {[type |-> "int", n |-> 3, R |-> 0], [type |-> "str", n |-> 0, R |-> 0]}

Polygon(n, R) == [type |-> "Polygon", n |-> n, R |-> R]

InvalidVertexCount_Off(n) == n < 2

InvalidVertexCount(n) == n < 3

count_vertices(self) == self.n

count_edges(self) == self.n

circumradius(self) == self.R

interior_angle_Exterior(self) == FDiv(FromInt(360), FromInt(self.n))

interior_angle(self) == FDiv(FromInt((self.n - 2) * 180), FromInt(self.n))

side_length(self) == FMul(FMul(FromInt(2), self.R), SinPiOver(self.n))

apothem(self) == FMul(self.R, CosPiOver(self.n))

area(self) == FMul(FMul(FDiv(FromInt(self.n), FromInt(2)), side_length(self)), apothem(self))

perimeter(self) == FMul(FromInt(self.n), side_length(self))

IsPolygon(x) == x.type = "Polygon"

BoolStr(b) == IF b THEN "True" ELSE "False"

Eq_EdgesOnly(self, other) ==
    IF IsPolygon(other)
    THEN BoolStr(count_edges(self) = count_edges(other))
    ELSE "NotImplemented"

Eq(self, other) ==
    IF IsPolygon(other)
    THEN BoolStr(count_edges(self) = count_edges(other)
                 /\ circumradius(self) = circumradius(other))
    ELSE "NotImplemented"

Gt_OrEqual(self, other) ==
    IF IsPolygon(other)
    THEN BoolStr(count_vertices(self) >= count_vertices(other))
    ELSE "NotImplemented"

Gt(self, other) ==
    IF IsPolygon(other)
    THEN BoolStr(count_vertices(self) > count_vertices(other))
    ELSE "NotImplemented"

(* ---- class Polygons ---- *)
NoPolygons == [built |-> FALSE, m |-> 0, R |-> 0, polygons |-> <<>>]

InvalidMaxEdges(m) == m < 3

BuildPolygons_Short(m, R) == [i \in 1..(m - 3) |-> Polygon(i + 2, R)]

(* [Polygon(i, R) for i in range(3, m + 1)] *)
BuildPolygons(m, R) == [i \in 1..(m - 2) |-> Polygon(i + 2, R)]

Len__(self) == self.m - 2

ListGetItem_NoNegative(ps, index) ==
    IF index >= 0 /\ index < Len(ps)
    THEN [err |-> "", poly |-> ps[index + 1]]
    ELSE [err |-> "IndexError", poly |-> NoPolygon]

(* list.__getitem__ with an integer: a negative index counts from the end *)
ListGetItem(ps, index) ==
    LET i == IF index < 0 THEN index + Len(ps) ELSE index
    IN  IF i >= 0 /\ i < Len(ps)
        THEN [err |-> "", poly |-> ps[i + 1]]
        ELSE [err |-> "IndexError", poly |-> NoPolygon]

(* the sort key  p.area / p.perimeter *)
KeyRaises(q) == FloatDivError(area(q), perimeter(q))

Key(q) == FDiv(area(q), perimeter(q))

InsertByKey_Unstable(s, x) ==
    LET k == Cardinality({i \in 1..Len(s) : Key(s[i]) > Key(x)})
    IN  SubSeq(s, 1, k) \o <<x>> \o SubSeq(s, k + 1, Len(s))

(* stable insertion into a list sorted by descending key: x goes after *)
(* every element whose key is greater than or equal to its own         *)
InsertByKey(s, x) ==
    LET k == Cardinality({i \in 1..Len(s) : Key(s[i]) >= Key(x)})
    IN  SubSeq(s, 1, k) \o <<x>> \o SubSeq(s, k + 1, Len(s))

RECURSIVE Sorted(_)
(* sorted(ps, key=..., reverse=True): a new list, stable *)
Sorted(ps) ==
    IF ps = <<>> THEN <<>>
    ELSE InsertByKey(Sorted(SubSeq(ps, 1, Len(ps) - 1)), ps[Len(ps)])

OwnedListAfterSorted_InPlace(ps) == Sorted(ps)

(* sorted() copies: the list it is given is left as it was *)
OwnedListAfterSorted(ps) == ps

max_efficiency_polygon(ps) ==
    IF \E i \in 1..Len(ps) : KeyRaises(ps[i])
    THEN [err |-> "ZeroDivisionError", poly |-> NoPolygon]
    ELSE ListGetItem(Sorted(ps), 0)

(* ---- class PolygonsIterator ---- *)
PolygonsIteratorInit_One == [index |-> 1, yielded |-> <<>>, stopped |-> FALSE]

(* yielded and stopped record what the cursor has handed out so far *)
PolygonsIteratorInit == [index |-> 0, yielded |-> <<>>, stopped |-> FALSE]

(* ---- the outcome of the last call ---- *)
Res(op, err, arg, num, flag, poly, self, other) ==
    [op |-> op, err |-> err, arg |-> arg, num |-> num, flag |-> flag,
     poly |-> poly, self |-> self, other |-> other]

Members == {seq.polygons[i] : i \in 1..Len(seq.polygons)}

(* the polygons a caller can pass as the other operand: p and the members *)
Held == Members \cup (IF IsPolygon(p) THEN {p} ELSE {})

Init ==
    /\ seq = NoPolygons
    /\ cursors = <<>>
    /\ p = NoPolygon
    /\ result = Res("", "", 0, 0, "", NoPolygon, NoPolygon, NoPolygon)

(* p = Polygon(n, R) *)
PolygonInit ==
    \E n \in NValues, R \in RValues :
        IF InvalidVertexCount(n)
        THEN /\ result' = Res("Polygon.__init__", "ValueError", n, R, "", NoPolygon, NoPolygon, NoPolygon)
             /\ UNCHANGED <<seq, cursors, p>>
        ELSE /\ p' = Polygon(n, R)
             /\ result' = Res("Polygon.__init__", "", n, R, "", Polygon(n, R), NoPolygon, NoPolygon)
             /\ UNCHANGED <<seq, cursors>>

(* seq = Polygons(m, R) *)
PolygonsInit ==
    /\ ~seq.built
    /\ \E m \in NValues, R \in RValues :
        IF InvalidMaxEdges(m)
        THEN /\ result' = Res("Polygons.__init__", "ValueError", m, R, "", NoPolygon, NoPolygon, NoPolygon)
             /\ UNCHANGED <<seq, cursors, p>>
        ELSE /\ seq' = [built |-> TRUE, m |-> m, R |-> R, polygons |-> BuildPolygons(m, R)]
             /\ result' = Res("Polygons.__init__", "", m, R, "", NoPolygon, NoPolygon, NoPolygon)
             /\ UNCHANGED <<cursors, p>>

(* len(seq) *)
PolygonsLen ==
    /\ seq.built
    /\ result' = Res("__len__", "", 0, Len__(seq), "", NoPolygon, NoPolygon, NoPolygon)
    /\ UNCHANGED <<seq, cursors, p>>

(* seq[index] *)
PolygonsGetItem ==
    /\ seq.built
    /\ \E index \in IndexValues :
        LET r == ListGetItem(seq.polygons, index)
        IN  result' = Res("__getitem__", r.err, index, 0, "", r.poly, NoPolygon, NoPolygon)
    /\ UNCHANGED <<seq, cursors, p>>

(* iter(seq) *)
PolygonsIter ==
    /\ seq.built
    /\ Len(cursors) < MaxCursors
    /\ cursors' = Append(cursors, PolygonsIteratorInit)
    /\ result' = Res("__iter__", "", Len(cursors) + 1, 0, "", NoPolygon, NoPolygon, NoPolygon)
    /\ UNCHANGED <<seq, p>>

(* next(cursors[c]); the cursor reads the list the sequence owns *)
IteratorNext ==
    \E c \in 1..Len(cursors) :
        LET self == cursors[c]
        IN  IF self.index < Len(seq.polygons)
            THEN LET polygon == seq.polygons[self.index + 1]
                 IN  /\ cursors' = [cursors EXCEPT ![c] =
                            [index |-> self.index + 1,
                             yielded |-> Append(self.yielded, polygon),
                             stopped |-> FALSE]]
                     /\ result' = Res("__next__", "", c, 0, "", polygon, NoPolygon, NoPolygon)
                     /\ UNCHANGED <<seq, p>>
            ELSE /\ cursors' = [cursors EXCEPT ![c].stopped = TRUE]
                 /\ result' = Res("__next__", "StopIteration", c, 0, "", NoPolygon, NoPolygon, NoPolygon)
                 /\ UNCHANGED <<seq, p>>

(* seq.max_efficiency_polygon *)
MaxEfficiencyPolygon ==
    /\ seq.built
    /\ LET r == max_efficiency_polygon(seq.polygons)
       IN  /\ result' = Res("max_efficiency_polygon", r.err, 0, 0, "", r.poly, NoPolygon, NoPolygon)
           /\ seq' = [seq EXCEPT !.polygons =
                         IF r.err = "" THEN OwnedListAfterSorted(@) ELSE @]
    /\ UNCHANGED <<cursors, p>>

(* p.interior_angle *)
InteriorAngle ==
    /\ IsPolygon(p)
    /\ LET self == p IN
        result' = Res("interior_angle", "", 0, interior_angle(self), "", NoPolygon, self, NoPolygon)
    /\ UNCHANGED <<seq, cursors, p>>

PropertyNames == {"count_vertices", "count_edges", "circumradius",
                  "side_length", "apothem", "area", "perimeter"}

PropertyValue(self, name) ==
    CASE name = "count_vertices" -> count_vertices(self)
      [] name = "count_edges" -> count_edges(self)
      [] name = "circumradius" -> circumradius(self)
      [] name = "side_length" -> side_length(self)
      [] name = "apothem" -> apothem(self)
      [] name = "area" -> area(self)
      [] name = "perimeter" -> perimeter(self)

(* p.<name> for the other read-only properties *)
ReadProperty ==
    /\ IsPolygon(p)
    /\ \E name \in PropertyNames : LET self == p IN
        result' = Res(name, "", 0, PropertyValue(self, name), "", NoPolygon, self, NoPolygon)
    /\ UNCHANGED <<seq, cursors, p>>

(* p.__eq__(other) *)
PolygonEq ==
    /\ IsPolygon(p)
    /\ \E other \in Held \cup OtherValues : LET self == p IN
        result' = Res("__eq__", "", 0, 0, Eq(self, other), NoPolygon, self, other)
    /\ UNCHANGED <<seq, cursors, p>>

(* p.__gt__(other) *)
PolygonGt ==
    /\ IsPolygon(p)
    /\ \E other \in Held \cup OtherValues : LET self == p IN
        result' = Res("__gt__", "", 0, 0, Gt(self, other), NoPolygon, self, other)
    /\ UNCHANGED <<seq, cursors, p>>

Next ==
    \/ PolygonInit
    \/ PolygonsInit
    \/ PolygonsLen
    \/ PolygonsGetItem
    \/ PolygonsIter
    \/ IteratorNext
    \/ MaxEfficiencyPolygon
    \/ InteriorAngle
    \/ ReadProperty
    \/ PolygonEq
    \/ PolygonGt

Spec == Init /\ [][Next]_vars

(* ---- properties ---- *)

(* C1, as stated: indexed access fails with an index error for every index *)
(* below 0 or at or beyond the length, and returns the polygon with        *)
(* index + 3 edges for every index in between.                             *)
C1_Original ==
    result.op = "__getitem__" =>
        IF result.arg < 0 \/ result.arg >= Len__(seq)
        THEN result.err = "IndexError"
        ELSE result.err = "" /\ count_edges(result.poly) = result.arg + 3

(* C1, amended: indexed access fails with an index error exactly when the  *)
(* index is below -length or at or beyond length; an index in [0, length)  *)
(* returns the polygon with index + 3 edges, and an index in [-length, 0)  *)
(* returns the polygon at index + length, so -1 returns the last polygon.  *)
C1_GetItem ==
    result.op = "__getitem__" =>
        LET len == Len__(seq)
            i == result.arg
        IN  /\ (result.err = "IndexError") <=> (i < 0 - len \/ i >= len)
            /\ result.err \in {"", "IndexError"}
            /\ (0 <= i /\ i < len) => result.poly = Polygon(i + 3, seq.R)
            /\ (0 - len <= i /\ i < 0) => result.poly = Polygon(i + len + 3, seq.R)

C1_Witness ==
    /\ result.op = "__getitem__"
    /\ result.arg = 0 - 1
    /\ result.err = ""
    /\ Len__(seq) >= 2
    /\ count_edges(result.poly) = seq.m

(* C2: when max_efficiency_polygon returns, the polygon it returns is a    *)
(* member whose area / perimeter ratio is at least that of every member,   *)
(* and among the members that tie on that ratio it has the fewest edges.   *)
C2_MaxEfficiency ==
    (result.op = "max_efficiency_polygon" /\ result.err = "") =>
        /\ result.poly \in Members
        /\ \A q \in Members :
              /\ FDiv(area(result.poly), perimeter(result.poly))
                    >= FDiv(area(q), perimeter(q))
              /\ FDiv(area(result.poly), perimeter(result.poly))
                    = FDiv(area(q), perimeter(q))
                 => count_edges(result.poly) <= count_edges(q)

C2_Witness ==
    /\ result.op = "max_efficiency_polygon"
    /\ result.err = ""
    /\ \E q \in Members :
          /\ q # result.poly
          /\ FDiv(area(q), perimeter(q)) = FDiv(area(result.poly), perimeter(result.poly))
          /\ count_edges(q) > count_edges(result.poly)

(* C3, as stated: on every constructed sequence max_efficiency_polygon     *)
(* returns a polygon and raises no error.                                  *)
C3_Original ==
    result.op = "max_efficiency_polygon" =>
        result.err = "" /\ IsPolygon(result.poly)

(* C3, amended: max_efficiency_polygon raises a division-by-zero error     *)
(* exactly when the perimeter of some member is zero, as it is for         *)
(* circumradius 0; otherwise it returns a member.  It never fails for want *)
(* of members.                                                             *)
C3_MaxEfficiencyErrors ==
    result.op = "max_efficiency_polygon" =>
        /\ result.err \in {"", "ZeroDivisionError"}
        /\ (result.err = "ZeroDivisionError") <=> (\E q \in Members : perimeter(q) = 0)
        /\ seq.R = 0 => result.err = "ZeroDivisionError"
        /\ result.err = "" => result.poly \in Members
        /\ Members # {}

C3_Witness ==
    /\ result.op = "max_efficiency_polygon"
    /\ result.err = "ZeroDivisionError"
    /\ seq.built
    /\ seq.R = 0

(* C4: every cursor starts at position 0 and, whatever the other cursors   *)
(* do, has yielded exactly the first index polygons of the sequence in     *)
(* order; it signals exhaustion only after yielding all of them.           *)
C4_Cursors ==
    \A c \in 1..Len(cursors) :
        /\ cursors[c].index = Len(cursors[c].yielded)
        /\ cursors[c].index <= Len(seq.polygons)
        /\ cursors[c].yielded = SubSeq(seq.polygons, 1, cursors[c].index)
        /\ \A i \in 1..Len(cursors[c].yielded) :
              cursors[c].yielded[i] = ListGetItem(seq.polygons, i - 1).poly
        /\ cursors[c].stopped => cursors[c].yielded = seq.polygons

C4_Witness ==
    /\ Len(cursors) >= 2
    /\ Len(seq.polygons) >= 2
    /\ cursors[1].stopped
    /\ cursors[1].yielded = seq.polygons
    /\ cursors[2].index = 1
    /\ ~cursors[2].stopped

(* C5: a constructed sequence with maximum edge count m and circumradius R *)
(* owns exactly m - 2 polygons, len() reports that number, the polygon at  *)
(* position i has i + 3 edges, and every polygon has circumradius R.       *)
C5_Construction ==
    seq.built =>
        /\ Len(seq.polygons) = seq.m - 2
        /\ Len__(seq) = Len(seq.polygons)
        /\ result.op = "__len__" => result.num = Len(seq.polygons)
        /\ \A i \in 0..(Len(seq.polygons) - 1) :
              /\ IsPolygon(seq.polygons[i + 1])
              /\ count_edges(seq.polygons[i + 1]) = i + 3
              /\ circumradius(seq.polygons[i + 1]) = seq.R

C5_Witness ==
    /\ seq.built
    /\ seq.m = MaxM
    /\ result.op = "__len__"
    /\ result.num = MaxM - 2

(* C6: constructing a polygon or a sequence fails with ValueError exactly  *)
(* when the edge count is below 3, and then no instance comes to exist;    *)
(* with 3 or more it succeeds; no other operation raises ValueError.       *)
C6_InvalidArgument ==
    /\ IsPolygon(p) => count_edges(p) >= 3
    /\ seq.built => seq.m >= 3
    /\ \A q \in Members : count_edges(q) >= 3
    /\ result.op = "Polygon.__init__" =>
          /\ (result.err = "ValueError") <=> (result.arg < 3)
          /\ result.err \in {"", "ValueError"}
          /\ result.err = "ValueError" => result.poly = NoPolygon
          /\ result.err = "" => (p = Polygon(result.arg, result.num) /\ result.poly = p)
    /\ result.op = "Polygons.__init__" =>
          /\ (result.err = "ValueError") <=> (result.arg < 3)
          /\ result.err \in {"", "ValueError"}
          /\ result.err = "ValueError" => seq = NoPolygons
          /\ result.err = "" => (seq.built /\ seq.m = result.arg /\ seq.R = result.num)
    /\ result.op \notin {"Polygon.__init__", "Polygons.__init__"} =>
          result.err # "ValueError"

C6_Witness ==
    /\ result.op = "Polygons.__init__"
    /\ result.err = "ValueError"
    /\ result.arg = 2
    /\ ~seq.built
    /\ IsPolygon(p)
    /\ count_edges(p) = 3

C8_Equality ==
    result.op = "__eq__" =>
        /\ result.err = ""
        /\ IsPolygon(result.other) =>
              /\ (result.flag = "True") <=>
                    (result.self.n = result.other.n /\ result.self.R = result.other.R)
              /\ result.flag \in {"True", "False"}
              /\ Eq(result.other, result.self) = result.flag
        /\ result.other = result.self => result.flag = "True"
        /\ ~IsPolygon(result.other) => result.flag = "NotImplemented"

C8_Witness ==
    /\ result.op = "__eq__"
    /\ IsPolygon(result.other)
    /\ result.self.n = result.other.n
    /\ result.self.R # result.other.R
    /\ result.flag = "False"

(* C9: __gt__ answers True exactly when the polygon has strictly more      *)
(* edges than the other, whatever the circumradii; so no polygon is        *)
(* greater than itself, no two are greater than each other, and polygons   *)
(* with equal edge counts and different circumradii are neither greater    *)
(* nor equal.                                                              *)
C9_Ordering ==
    (result.op = "__gt__" /\ IsPolygon(result.other)) =>
        /\ (result.flag = "True") <=> (result.self.n > result.other.n)
        /\ result.flag \in {"True", "False"}
        /\ result.other = result.self => result.flag = "False"
        /\ result.flag = "True" => Gt(result.other, result.self) = "False"
        /\ (result.self.n = result.other.n /\ result.self.R # result.other.R) =>
              /\ result.flag = "False"
              /\ Gt(result.other, result.self) = "False"
              /\ Eq(result.self, result.other) = "False"

C9_Witness ==
    /\ result.op = "__gt__"
    /\ IsPolygon(result.other)
    /\ result.self.n > result.other.n
    /\ result.self.R # result.other.R
    /\ result.flag = "True"

(* C10: once the sequence is constructed no operation changes the owned    *)
(* list or any polygon in it; in particular max_efficiency_polygon leaves  *)
(* the order of the owned list as it was.                                  *)
C10_Frame == [][seq.built => seq' = seq]_vars

C10_Witness ==
    /\ result.op = "max_efficiency_polygon"
    /\ result.err = ""
    /\ Len(seq.polygons) >= 2
    /\ result.poly # seq.polygons[1]
    /\ seq.polygons = BuildPolygons(seq.m, seq.R)

====
